---------------------------- MODULE Spec2Model ----------------------------
(***************************************************************************)
(* Inspektor client: the metadata negotiation between the QueryInterface   *)
(* component, the MetadataApproval dialog, the reasoning server (Planner)  *)
(* and the local Tauri commands (Executor).                                *)
(*                                                                         *)
(* React state is modelled one variable per useState cell.  A handler, or  *)
(* the continuation of a handler after an await, is one action: its state  *)
(* updates are batched, the tree is rendered once, and the passive effects *)
(* of that render (MetadataApproval's auto-approve effect first, then      *)
(* QueryInterface's load effect) run before any other event is handled.    *)
(* Calls that are awaited are messages in flight: submitOp, approvals,     *)
(* execOp, imOp.                                                           *)
(***************************************************************************)
EXTENDS Integers, Sequences, FiniteSets, TLC

----------------------------------------------------------------------------
(* Bounds of the model *)

\* conversation ids the server can hand out
NumConvs == 2
\* approval round-trips that may be in flight together
MaxApprovals == 2

----------------------------------------------------------------------------
(* Values *)

NoConv == 0
Convs == 1..NumConvs

\* useState(5) of maxAutoApprovals
DefaultMaxAutoApprovals == 5
\* Math.min(10, ...) of the bound input
HardCap == 10
\* Math.max(1, ...) of the bound input
MinBound == 1

\* what parseInt(e.target.value) yields for the texts a user can leave in the
\* bound input: NaN for an empty or non-numeric text, else the integer
BoundInputs ==
    {[nan |-> TRUE, n |-> 0]} \cup {[nan |-> FALSE, n |-> k] : k \in {-3, 0, 2, 11}}

\* texts of the query textarea: empty, whitespace only, a question
QueryTexts == {"", " ", "q"}

NoMetadataRequest == [metadata_type |-> "none", tables |-> 0]
NoRequest ==
    [status |-> "none", conversation_id |-> 0, metadata_request |-> NoMetadataRequest, error |-> ""]
Idle == [kind |-> "idle"]
NoError == "null"

RejectedByUser == "Metadata request was rejected by user"
UnknownLLMError == "Unknown error from LLM"
PlannerErrors == {"", "planner error"}
ExecutorErrors == {"relation does not exist", "syntax error"}
ProcessFailed == "Failed to process query: LLM API error"

\* metadata_request of a response: metadata_type and the number of table
\* names in params.tables; "none" when the response carries no request.
\* ("relationships" is handled like "tables" and is left out of the inputs.)
MetadataRequests ==
    { [metadata_type |-> "tables", tables |-> 0],
      [metadata_type |-> "schema", tables |-> 0],
      [metadata_type |-> "schema", tables |-> 1],
      [metadata_type |-> "other", tables |-> 0] }

\* the QueryResponse values the reasoning server may answer for conversation c
Responses(c) ==
    { [status |-> "needs_metadata", conversation_id |-> c, metadata_request |-> m, error |-> ""] :
        m \in MetadataRequests \cup {NoMetadataRequest} }
    \cup { [status |-> s, conversation_id |-> c, metadata_request |-> NoMetadataRequest, error |-> ""] :
        s \in {"ready", "clarification"} }
    \cup { [status |-> "error", conversation_id |-> c, metadata_request |-> NoMetadataRequest, error |-> e] :
        e \in PlannerErrors }

----------------------------------------------------------------------------
(* Request bodies sent to the reasoning server: endpoint and JSON fields *)

CredentialFields == {"host", "port", "username", "password", "file_path", "connection"}

ProcessQueryBody(query, conv) ==
    [endpoint |-> "/query", conv |-> conv, query |-> query,
     fields |-> {"database_id", "query", "conversation_id"}]

SendMessageBody(conv, message) ==
    [endpoint |-> "/conversations/message", conv |-> conv, query |-> message,
     fields |-> {"message", "database_id"}]

SubmitMetadataBody(conv) ==
    [endpoint |-> "/metadata", conv |-> conv, query |-> "",
     fields |-> {"database_id", "metadata_type", "data"}]

SendErrorFeedbackBody(conv) ==
    [endpoint |-> "/error-feedback", conv |-> conv, query |-> "",
     fields |-> {"database_id", "conversation_id", "sql", "error_message", "original_query"}]

\* buildConnectionObject: the fields of the connection object
BuildConnectionObject ==
    {"db_type", "host", "port", "database", "username", "password", "file_path", "schema"}

ProcessQueryImprovedBody(query) ==
    [endpoint |-> "/query", conv |-> NoConv, query |-> query, fields |-> {"query"}]

SendErrorFeedbackImprovedBody ==
    [endpoint |-> "/error-feedback", conv |-> NoConv, query |-> "",
     fields |-> {"database_id", "sql", "error_message", "original_query", "connection"}
                \cup BuildConnectionObject]

NoBody == [endpoint |-> "none", conv |-> NoConv, query |-> "", fields |-> {}]

----------------------------------------------------------------------------
VARIABLES
    \* QueryInterface
    query, loading, conversationId, pendingMetadataRequest, queryResults,
    error, executingMessageId, autoMode, maxAutoApprovals, autoApprovalCount,
    \* MetadataApproval (the mounted dialog)
    maLoading, isAutoApproving,
    \* calls in flight
    submitOp, approvals, execOp,
    \* reasoning server
    created,
    \* reasoning server: the conversations deleted (in the behaviours of
    \* SpecHistory)
    deleted,
    \* QueryInterfaceImproved
    imQuery, imLoading, imCredentials, imGeneratedSQL, imSqlExplanation,
    imQueryResults, imError, imFailedSQL, imOp,
    \* history: the consecutive auto-approvals started since the dialog was
    \* opened (counted up to HardCap + 1), and the conversations in which the
    \* counter has reached HardCap (recorded in the behaviours of SpecCap)
    autoStarted, capReached, recordCap,
    \* history: the consecutive failed executions of the active conversation
    \* since its last message or successful execution (counted up to
    \* RetryLimit + 1, recorded in the behaviours of SpecRetry)
    consecutiveFailures, recordFailures,
    \* time: the deadlines of config.timeouts.llmQuery that have passed since
    \* the Planner call in flight was sent (counted up to MaxDeadlines + 1 in
    \* the behaviours of SpecTimed)
    waited,
    \* reasoning server, metadata cache of the datastore: the entry, the entry
    \* the same submissions give when each concurrent pair is served in the
    \* other order, the payload merged last with the number of times it was
    \* merged in a row, and the server's clock
    cache, swapped, lastMerge, clock,
    \* history: the calls of onApproved and onRejected made in the last step,
    \* each with the request that was pending when it was made (recorded in
    \* the behaviours of SpecResolved)
    resolved, recordResolved,
    \* QueryInterface, the message list: the conversation whose messages it
    \* holds (NoConv for the empty list), the messages, and the
    \* getConversation calls in flight that end in setMessages (kept in the
    \* behaviours of SpecMessages), with the number of user messages the
    \* server has stored for each conversation (counted up to MaxTurns)
    messagesOf, thread, loads, turns, recordMessages,
    \* auth service: the values under TOKEN_KEY and USER_KEY in the Tauri
    \* secure storage and in localStorage, whether a request of
    \* authenticatedFetch and the request of logout are in flight, how the last
    \* call of the service ended, and whether the server holds the session
    secureStorage, localStorage, fetching, loggingOut, outcome, session

uiVars == <<query, loading, conversationId, pendingMetadataRequest, queryResults,
            error, executingMessageId, autoMode, maxAutoApprovals, autoApprovalCount,
            maLoading, isAutoApproving>>
opVars == <<submitOp, approvals, execOp, created, deleted>>
imVars == <<imQuery, imLoading, imCredentials, imGeneratedSQL, imSqlExplanation,
            imQueryResults, imError, imFailedSQL, imOp>>
histVars == <<autoStarted, capReached, recordCap, consecutiveFailures, recordFailures,
              waited>>
cacheVars == <<cache, swapped, lastMerge, clock>>
callVars == <<resolved, recordResolved>>
msgVars == <<messagesOf, thread, loads, turns, recordMessages>>
authVars == <<secureStorage, localStorage, fetching, loggingOut, outcome, session>>
vars == <<uiVars, opVars, imVars, histVars, cacheVars, callVars, msgVars, authVars>>

----------------------------------------------------------------------------
(* The React state as one record, and the render/effect pass *)

Cur ==
    [query |-> query, loading |-> loading, conversationId |-> conversationId,
     pending |-> pendingMetadataRequest, queryResults |-> queryResults,
     error |-> error, executingMessageId |-> executingMessageId,
     autoMode |-> autoMode, max |-> maxAutoApprovals, count |-> autoApprovalCount,
     maLoading |-> maLoading, isAutoApproving |-> isAutoApproving,
     approvals |-> approvals, failures |-> consecutiveFailures, waited |-> waited,
     calls |-> <<>>, messagesOf |-> messagesOf, thread |-> thread, loads |-> loads,
     turns |-> turns]

\* {pendingMetadataRequest && pendingMetadataRequest.metadata_request && <MetadataApproval/>}
Mounted(s) ==
    /\ s.pending # NoRequest
    /\ s.pending.metadata_request # NoMetadataRequest

\* a switch that finds an Executor call for every request
FetchableAny(req) == TRUE

\* the switch of handleApprove reaches an Executor call for these requests;
\* for the others it throws before the first await
Fetchable(req) ==
    \/ req.metadata_type \in {"tables", "relationships"}
    \/ req.metadata_type = "schema" /\ req.tables >= 1

\* a call of onApproved or onRejected, with the request pending at the call
Call(fn, s, wasAutoApproved) ==
    [fn |-> fn, req |-> s.pending.metadata_request, auto |-> wasAutoApproved]

\* onRejected of QueryInterface
OnRejected(s) ==
    [s EXCEPT !.pending = NoRequest, !.error = RejectedByUser,
              !.calls = Append(@, Call("onRejected", s, FALSE))]

\* handleApprove up to its first await
HandleApprove(s, isAuto) ==
    LET req == s.pending.metadata_request IN
    IF Fetchable(req)
    THEN [s EXCEPT !.maLoading = TRUE,
                   !.approvals = Append(@, [isAuto |-> isAuto, req |-> req,
                                            conv |-> s.conversationId,
                                            stage |-> "fetch", live |-> TRUE])]
    ELSE [OnRejected(s) EXCEPT !.maLoading = FALSE, !.isAutoApproving = FALSE]

\* shouldAutoApprove without the comparison of the counter with the bound
ShouldAutoApproveUnbounded(s) ==
    s.autoMode /\ ~s.maLoading /\ ~s.isAutoApproving

\* shouldAutoApprove with the counter allowed to equal the bound
ShouldAutoApproveInclusive(s) ==
    s.autoMode /\ ~s.maLoading /\ ~s.isAutoApproving /\ s.count <= s.max

\* shouldAutoApprove without the test of auto-mode
ShouldAutoApproveAlways(s) ==
    ~s.maLoading /\ ~s.isAutoApproving /\ s.count < s.max

\* shouldAutoApprove of MetadataApproval's effect
ShouldAutoApprove(s) ==
    s.autoMode /\ ~s.maLoading /\ ~s.isAutoApproving /\ s.count < s.max

\* MetadataApproval's useEffect body
AutoApproveEffect(s) ==
    IF ShouldAutoApprove(s)
    THEN HandleApprove([s EXCEPT !.isAutoApproving = TRUE], TRUE)
    ELSE s

\* dependency list of MetadataApproval's effect
EffectDeps(s) == <<s.autoMode, s.max, s.count>>

\* QueryInterface's useEffect on conversationId without the counter reset
LoadEffectKeepsCount(s) == s

\* QueryInterface's useEffect on conversationId: without a conversation the
\* list is emptied, with one getConversation is called; the counter is reset
LoadEffect(s) ==
    IF s.conversationId = NoConv
    THEN [s EXCEPT !.count = 0, !.messagesOf = NoConv, !.thread = <<>>]
    ELSE [s EXCEPT !.count = 0, !.loads = @ \cup {s.conversationId}]

\* rendering: an unmounted dialog loses its state, and the calls it issued
\* can no longer set it
Render(s) ==
    IF Mounted(s) THEN s
    ELSE [s EXCEPT !.maLoading = FALSE, !.isAutoApproving = FALSE,
                   !.approvals = [i \in DOMAIN @ |-> [@[i] EXCEPT !.live = FALSE]]]

\* one render of the batched updates `new`, then the passive effects (child
\* first), then the render and effects these cause
AfterEffects(old, new) ==
    LET r1 == Render(new)
        e1 == IF Mounted(r1) /\ (~Mounted(old) \/ EffectDeps(r1) # EffectDeps(old))
              THEN AutoApproveEffect(r1) ELSE r1
        e2 == IF r1.conversationId # old.conversationId THEN LoadEffect(e1) ELSE e1
        r2 == Render(e2)
        e3 == IF Mounted(r2) /\ EffectDeps(r2) # EffectDeps(r1)
              THEN AutoApproveEffect(r2) ELSE r2
    IN  Render(e3)

\* history of the auto-approvals the effects of this step started
CountAuto(n, k) == IF n + k > HardCap THEN HardCap + 1 ELSE n + k

Commit(new) ==
    \E s \in {AfterEffects(Cur, new)} :
    /\ Len(s.approvals) <= MaxApprovals
    /\ LET k == Len(s.approvals) - Len(new.approvals)
           turn == IF Mounted(Cur) THEN autoStarted ELSE 0
       IN  /\ autoStarted' = IF Mounted(s) THEN CountAuto(turn, k) ELSE 0
           /\ capReached' =
                IF recordCap /\ s.count >= HardCap /\ s.conversationId # NoConv
                THEN capReached \cup {s.conversationId} ELSE capReached
           /\ consecutiveFailures' =
                IF recordFailures /\ s.conversationId = conversationId
                THEN s.failures ELSE 0
           /\ waited' = s.waited
           /\ resolved' = IF recordResolved THEN s.calls ELSE <<>>
           /\ messagesOf' = IF recordMessages THEN s.messagesOf ELSE NoConv
           /\ thread' = IF recordMessages THEN s.thread ELSE <<>>
           /\ turns' = IF recordMessages THEN s.turns ELSE [c \in Convs |-> 0]
           /\ loads' = IF recordMessages THEN s.loads ELSE {}
           /\ UNCHANGED <<recordCap, recordFailures, recordResolved, recordMessages>>
    /\ query' = s.query
    /\ loading' = s.loading
    /\ conversationId' = s.conversationId
    /\ pendingMetadataRequest' = s.pending
    /\ queryResults' = s.queryResults
    /\ error' = s.error
    /\ executingMessageId' = s.executingMessageId
    /\ autoMode' = s.autoMode
    /\ maxAutoApprovals' = s.max
    /\ autoApprovalCount' = s.count
    /\ maLoading' = s.maLoading
    /\ isAutoApproving' = s.isAutoApproving
    /\ approvals' = s.approvals

----------------------------------------------------------------------------
(* QueryInterface *)

\* a trim that leaves white space in place
TrimNothing(t) == t

\* String.prototype.trim on the texts of QueryTexts
Trim(t) == IF t = " " THEN "" ELSE t

\* the dialog is a modal Dialog over a full-viewport backdrop ("fixed inset-0"):
\* while it is mounted the controls of QueryInterface cannot be operated
DialogCoversPage == Mounted(Cur)

\* disabled={loading || !!pendingMetadataRequest} of the textarea and the button
FormDisabled == loading \/ pendingMetadataRequest # NoRequest

\* the bound input's expression without Math.min(10, ...)
ClampBoundNoCap(v) ==
    LET orDefault == IF v.nan \/ v.n = 0 THEN DefaultMaxAutoApprovals ELSE v.n
    IN  IF orDefault < MinBound THEN MinBound ELSE orDefault

\* Math.min(10, Math.max(1, parseInt(e.target.value) || 5))
ClampBound(v) ==
    LET orDefault == IF v.nan \/ v.n = 0 THEN DefaultMaxAutoApprovals ELSE v.n
        atLeast == IF orDefault < MinBound THEN MinBound ELSE orDefault
    IN  IF atLeast > HardCap THEN HardCap ELSE atLeast

\* handleLLMResponse
HandleLLMResponse(s, r) ==
    LET s1 == IF r.conversation_id # NoConv
              THEN [s EXCEPT !.conversationId = r.conversation_id] ELSE s
    IN  IF r.status = "needs_metadata" THEN [s1 EXCEPT !.pending = r]
        ELSE IF r.status = "error"
             THEN [s1 EXCEPT !.error = IF r.error = "" THEN UnknownLLMError ELSE r.error]
             ELSE s1

\* handleMetadataApproved without the increment of the counter
HandleMetadataApprovedUncounted(s, r, wasAutoApproved) ==
    HandleLLMResponse([s EXCEPT !.pending = NoRequest,
                                !.calls = Append(@, Call("onApproved", s, wasAutoApproved))], r)

\* handleMetadataApproved with an increment for every approval
HandleMetadataApprovedCountsAll(s, r, wasAutoApproved) ==
    HandleLLMResponse([s EXCEPT !.pending = NoRequest, !.count = @ + 1,
                                !.calls = Append(@, Call("onApproved", s, wasAutoApproved))], r)

\* handleMetadataApproved
HandleMetadataApproved(s, r, wasAutoApproved) ==
    LET s1 == [s EXCEPT !.pending = NoRequest,
                        !.calls = Append(@, Call("onApproved", s, wasAutoApproved))]
        s2 == IF wasAutoApproved THEN [s1 EXCEPT !.count = @ + 1] ELSE s1
    IN  HandleLLMResponse(s2, r)

\* onChange of the textarea
SetQuery(t) ==
    /\ ~FormDisabled
    /\ t # query
    /\ Commit([Cur EXCEPT !.query = t])
    /\ UNCHANGED <<submitOp, execOp, created, deleted, imVars, cacheVars, authVars>>

\* handleSubmitQuery up to the await of sendMessage / processQuery
HandleSubmitQuery ==
    /\ ~FormDisabled
    /\ Trim(query) # ""
    /\ submitOp' = [kind |-> "submit", conv |-> conversationId, stage |-> "plan",
                    body |-> IF conversationId # NoConv
                             THEN SendMessageBody(conversationId, query)
                             ELSE ProcessQueryBody(query, NoConv)]
    /\ Commit([Cur EXCEPT !.loading = TRUE, !.error = NoError,
                          !.queryResults = FALSE, !.pending = NoRequest,
                          !.failures = 0, !.waited = 0])
    /\ UNCHANGED <<execOp, created, deleted, imVars, cacheVars, authVars>>

\* the id the server gives the conversation it creates: ids are opaque, the
\* model hands them out in order
NewConversationId == Cardinality(created) + 1

\* user messages of a conversation the model tells apart: one, or more
MaxTurns == 2
AppendTurn(n) == IF n < MaxTurns THEN n + 1 ELSE MaxTurns

\* the Planner answers the submitted message, which the server has stored:
\* handleLLMResponse, setQuery(''), refreshMessages of the closure (which
\* returns at once without a conversation)
SubmitResponse ==
    /\ submitOp # Idle /\ submitOp.stage = "plan"
    /\ \E c \in Convs :
         /\ IF submitOp.conv # NoConv THEN c = submitOp.conv ELSE c = NewConversationId
         /\ created' = created \cup {c}
         /\ \E r \in Responses(c) :
              LET s1 == [HandleLLMResponse(Cur, r) EXCEPT !.query = "", !.waited = 0,
                                                          !.turns[c] = AppendTurn(@)] IN
              IF submitOp.conv = NoConv
              THEN /\ submitOp' = Idle
                   /\ Commit([s1 EXCEPT !.loading = FALSE])
              ELSE /\ submitOp' = [submitOp EXCEPT !.stage = "refresh", !.body = NoBody]
                   /\ Commit(s1)
    /\ UNCHANGED <<execOp, deleted, imVars, cacheVars, authVars>>

\* sendMessage / processQuery throws
SubmitFailure ==
    /\ submitOp # Idle /\ submitOp.stage = "plan"
    /\ submitOp' = Idle
    /\ Commit([Cur EXCEPT !.error = ProcessFailed, !.loading = FALSE, !.waited = 0])
    /\ UNCHANGED <<execOp, created, deleted, imVars, cacheVars, authVars>>

\* the messages of a conversation as the server returns them (the contents
\* stand for the first and the second message the user sent): a question
\* answered with SQL, and a question answered with a clarification, then the
\* user's answer to it answered with SQL
NoSQL == "null"
OneTurn ==
    << [role |-> "user", content |-> "list the users", sql |-> NoSQL],
       [role |-> "assistant", content |-> "All users", sql |-> "m1"] >>
TwoTurns ==
    << [role |-> "user", content |-> "list the users", sql |-> NoSQL],
       [role |-> "assistant", content |-> "Which users?", sql |-> NoSQL],
       [role |-> "user", content |-> "the ones with orders", sql |-> NoSQL],
       [role |-> "assistant", content |-> "Users with orders", sql |-> "m1"] >>

\* what getConversation may return as conversation.messages when the server
\* has stored n user messages; the empty list stands for a call that threw
Threads(n, ok) ==
    IF ~ok \/ n = 0 THEN {<<>>} ELSE IF n = 1 THEN {OneTurn} ELSE {TwoTurns}

\* setMessages(conversation.messages) of a getConversation(c) that returned;
\* when it threw the error is logged
SetMessages(s, c, list, ok) ==
    IF ok THEN [s EXCEPT !.messagesOf = c, !.thread = list] ELSE s

\* getConversation of refreshMessages returns or throws
SubmitRefreshDone ==
    /\ submitOp # Idle /\ submitOp.stage = "refresh"
    /\ submitOp' = Idle
    /\ \E ok \in BOOLEAN : \E list \in Threads(turns[submitOp.conv], ok) :
         Commit([SetMessages(Cur, submitOp.conv, list, ok) EXCEPT !.loading = FALSE])
    /\ UNCHANGED <<execOp, created, deleted, imVars, cacheVars, authVars>>

\* onChange of the Auto Mode checkbox
SetAutoMode ==
    /\ ~DialogCoversPage
    /\ Commit([Cur EXCEPT !.autoMode = ~autoMode])
    /\ UNCHANGED <<submitOp, execOp, created, deleted, imVars, cacheVars, authVars>>

\* onChange of the Max input, rendered when autoMode
SetMaxAutoApprovals(v) ==
    /\ ~DialogCoversPage
    /\ autoMode
    /\ ClampBound(v) # maxAutoApprovals
    /\ Commit([Cur EXCEPT !.max = ClampBound(v)])
    /\ UNCHANGED <<submitOp, execOp, created, deleted, imVars, cacheVars, authVars>>

\* handleNewQuery, behind the New Query button shown with query results
HandleNewQuery ==
    /\ ~DialogCoversPage
    /\ queryResults
    /\ Commit([Cur EXCEPT !.query = "", !.queryResults = FALSE,
                          !.error = NoError, !.pending = NoRequest])
    /\ UNCHANGED <<submitOp, execOp, created, deleted, imVars, cacheVars, authVars>>

\* the conversations of the history list: listConversations of the server,
\* less the ones handleDelete filtered out
Conversations == created \ deleted

\* handleSelectConversation, from the history list
HandleSelectConversation(c) ==
    /\ ~DialogCoversPage
    /\ c \in Conversations
    /\ Commit([Cur EXCEPT !.conversationId = c, !.queryResults = FALSE,
                          !.error = NoError, !.pending = NoRequest])
    /\ UNCHANGED <<submitOp, execOp, created, deleted, imVars, cacheVars, authVars>>

\* handleDelete from the history list and Confirm in its modal:
\* deleteConversation(c) is served, the list drops c; QueryInterface is not
\* told (a deleteConversation that throws changes nothing but the list's
\* error line)
HandleDelete(c) ==
    /\ ~DialogCoversPage
    /\ c \in Conversations
    /\ deleted' = deleted \cup {c}
    /\ UNCHANGED <<uiVars, submitOp, approvals, execOp, created, imVars, histVars,
                   cacheVars, authVars, callVars, msgVars>>

\* handleNewConversation, behind a button rendered when conversationId
HandleNewConversation ==
    /\ ~DialogCoversPage
    /\ conversationId # NoConv
    /\ Commit([Cur EXCEPT !.conversationId = NoConv, !.query = "",
                          !.queryResults = FALSE, !.error = NoError,
                          !.pending = NoRequest, !.count = 0, !.messagesOf = NoConv,
                          !.thread = <<>>])
    /\ UNCHANGED <<submitOp, execOp, created, deleted, imVars, cacheVars, authVars>>

----------------------------------------------------------------------------
(* MetadataApproval *)

RemoveAt(seq, i) == SubSeq(seq, 1, i - 1) \o SubSeq(seq, i + 1, Len(seq))

\* finally of handleApprove: the setters act on the issuing dialog only
Finally(s, op) ==
    IF op.live THEN [s EXCEPT !.maLoading = FALSE, !.isAutoApproving = FALSE] ELSE s

\* onClick of the Approve button, disabled={loading}
ApproveClick ==
    /\ Mounted(Cur)
    /\ ~maLoading
    /\ Commit(HandleApprove(Cur, FALSE))
    /\ UNCHANGED <<submitOp, execOp, created, deleted, imVars, cacheVars, authVars>>

\* onClick of the Reject button, disabled={loading}
RejectClick ==
    /\ Mounted(Cur)
    /\ ~maLoading
    /\ Commit(OnRejected(Cur))
    /\ UNCHANGED <<submitOp, execOp, created, deleted, imVars, cacheVars, authVars>>

\* an onClose that rejects also while the approval is in flight
OnCloseWhileLoading(s) == OnRejected(s)

\* onClose={() => !loading && onRejected()}
OnClose(s) == IF ~s.maLoading THEN OnRejected(s) ELSE s

\* onClose of the Dialog (Escape, click on the backdrop)
DialogClose ==
    /\ Mounted(Cur)
    /\ Commit(OnClose(Cur))
    /\ UNCHANGED <<submitOp, execOp, created, deleted, imVars, cacheVars, authVars>>

\* the Executor call of the switch returns: submitMetadata is sent
FetchDone(i) ==
    /\ i \in DOMAIN approvals
    /\ approvals[i].stage = "fetch"
    /\ Commit([Cur EXCEPT !.approvals[i].stage = "submit"])
    /\ UNCHANGED <<submitOp, execOp, created, deleted, imVars, cacheVars, authVars>>

\* submitMetadata returns: the continuation processQuery(databaseId, '', conversationId) is sent
SubmitMetadataDone(i) ==
    /\ i \in DOMAIN approvals
    /\ approvals[i].stage = "submit"
    /\ Commit([Cur EXCEPT !.approvals[i].stage = "continue"])
    /\ UNCHANGED <<submitOp, execOp, created, deleted, imVars, cacheVars, authVars>>

\* the continuation is answered: onApproved(response, isAuto), which ends
\* by calling refreshMessages for its conversation, then finally
ContinueDone(i) ==
    /\ i \in DOMAIN approvals
    /\ approvals[i].stage = "continue"
    /\ approvals[i].conv \in created
    /\ \E r \in Responses(approvals[i].conv) :
         LET op == approvals[i]
             s1 == HandleMetadataApproved(Cur, r, op.isAuto)
             s2 == Finally(s1, op)
         IN  Commit([s2 EXCEPT !.approvals = RemoveAt(@, i),
                               !.loads = @ \cup {op.conv}])
    /\ UNCHANGED <<submitOp, execOp, created, deleted, imVars, cacheVars, authVars>>

\* the Executor call, submitMetadata or the continuation throws:
\* catch calls onRejected(), then finally
ApprovalFailure(i) ==
    /\ i \in DOMAIN approvals
    /\ LET op == approvals[i]
           s1 == Finally(OnRejected(Cur), op)
       IN  Commit([s1 EXCEPT !.approvals = RemoveAt(@, i)])
    /\ UNCHANGED <<submitOp, execOp, created, deleted, imVars, cacheVars, authVars>>

----------------------------------------------------------------------------
(* SQL execution and error feedback *)

NoMessage == "null"
MessageIds == {"m1"}

\* the retry bound of the error-correction loop
RetryLimit == 3
CountFailure(n) == IF n > RetryLimit THEN RetryLimit + 1 ELSE n + 1

\* the sql and error_message arguments of sendErrorFeedback: the SQL of the
\* executed message and String(err)
NoFeedback == [sql |-> NoMessage, error_message |-> NoError]
FeedbackArgsSummarized(sql, e) == [sql |-> sql, error_message |-> "Query failed"]
FeedbackArgs(sql, e) == [sql |-> sql, error_message |-> e]

\* messages.find(m => m.role === 'user')?.content || ''
OriginalQuery(list) ==
    LET users == {k \in DOMAIN list : list[k].role = "user"}
    IN  IF users = {} THEN ""
        ELSE list[CHOOSE k \in users : \A l \in users : k <= l].content

\* MessageThread shows an Execute button for the messages of the list that
\* carry SQL (in the behaviours that do not keep the list, for the message
\* of MessageIds)
HasExecuteButton(m) ==
    recordMessages => \E k \in DOMAIN thread : thread[k].sql = m

\* MessageThread is rendered for a conversation; its Execute button starts
\* handleExecuteSQL unless an execution is running.  The handler keeps the
\* conversation id and the message list of the render it was created in.
HandleExecuteSQL(m) ==
    /\ ~DialogCoversPage
    /\ conversationId # NoConv
    /\ HasExecuteButton(m)
    /\ executingMessageId = NoMessage
    /\ execOp = Idle
    /\ execOp' = [kind |-> "exec", conv |-> conversationId, stage |-> "execute",
                  sql |-> m, body |-> NoBody, feedback |-> NoFeedback,
                  messages |-> thread, original_query |-> ""]
    /\ Commit([Cur EXCEPT !.executingMessageId = m, !.error = NoError,
                          !.queryResults = FALSE])
    /\ UNCHANGED <<submitOp, created, deleted, imVars, cacheVars, authVars>>

\* executeSqlQuery returns rows
ExecuteSuccess ==
    /\ execOp # Idle /\ execOp.stage = "execute"
    /\ execOp' = Idle
    /\ Commit([Cur EXCEPT !.queryResults = TRUE, !.executingMessageId = NoMessage,
                          !.failures = 0])
    /\ UNCHANGED <<submitOp, created, deleted, imVars, cacheVars, authVars>>

\* executeSqlQuery throws: setError, then sendErrorFeedback if conversationId
ExecuteFailure ==
    /\ execOp # Idle /\ execOp.stage = "execute"
    /\ \E e \in ExecutorErrors :
         IF execOp.conv # NoConv
         THEN /\ execOp' = [execOp EXCEPT !.stage = "feedback",
                                          !.body = SendErrorFeedbackBody(execOp.conv),
                                          !.feedback = FeedbackArgs(execOp.sql, e),
                                          !.original_query = OriginalQuery(execOp.messages)]
              /\ Commit([Cur EXCEPT !.error = e,
                                    !.failures = IF execOp.conv = conversationId
                                                 THEN CountFailure(@) ELSE @])
         ELSE /\ execOp' = Idle
              /\ Commit([Cur EXCEPT !.error = e, !.executingMessageId = NoMessage])
    /\ UNCHANGED <<submitOp, created, deleted, imVars, cacheVars, authVars>>

\* a continuation of sendErrorFeedback that runs the corrected SQL at once
AfterFeedbackRunsCorrected(op) ==
    [op EXCEPT !.stage = "execute", !.body = NoBody, !.feedback = NoFeedback]

\* the statements after the await of sendErrorFeedback: its response is not
\* read, refreshMessages is awaited
AfterFeedback(op) == [op EXCEPT !.stage = "refresh", !.body = NoBody]

\* sendErrorFeedback returns
FeedbackDone ==
    /\ execOp # Idle /\ execOp.stage = "feedback"
    /\ execOp' = AfterFeedback(execOp)
    /\ resolved' = <<>>
    /\ UNCHANGED <<uiVars, submitOp, approvals, created, deleted, imVars, histVars, cacheVars, authVars,
                   recordResolved, msgVars>>

\* sendErrorFeedback throws: logged, then finally
FeedbackFailure ==
    /\ execOp # Idle /\ execOp.stage = "feedback"
    /\ execOp' = Idle
    /\ Commit([Cur EXCEPT !.executingMessageId = NoMessage])
    /\ UNCHANGED <<submitOp, created, deleted, imVars, cacheVars, authVars>>

\* getConversation of refreshMessages returns or throws
ExecRefreshDone ==
    /\ execOp # Idle /\ execOp.stage = "refresh"
    /\ execOp' = Idle
    /\ \E ok \in BOOLEAN : \E list \in Threads(turns[execOp.conv], ok) :
         Commit([SetMessages(Cur, execOp.conv, list, ok) EXCEPT !.executingMessageId = NoMessage])
    /\ UNCHANGED <<submitOp, created, deleted, imVars, cacheVars, authVars>>

\* getConversation(c) of the load effect, or of the refreshMessages that
\* ends handleMetadataApproved, returns or throws
LoadDone(c) ==
    /\ c \in loads
    /\ \E ok \in BOOLEAN : \E list \in Threads(turns[c], ok) :
         Commit([SetMessages(Cur, c, list, ok) EXCEPT !.loads = @ \ {c}])
    /\ UNCHANGED <<submitOp, execOp, created, deleted, imVars, cacheVars, authVars>>

----------------------------------------------------------------------------
(* QueryInterfaceImproved *)

CredentialsFailed == "Failed to load credentials"
CorrectedVersion(e) == "Previous query failed. Here's a corrected version: " \o e
CorrectionFailed(e, c) == e \o " Error correction failed: " \o c
NoCorrection == "Could not generate corrected query"
FeedbackNotSent(e) == e \o " Failed to send error feedback"

\* the answers of the improved agent: status, SQL present, failed_sql present
ImprovedResponses ==
    {[status |-> "ready", sql |-> b, explanation |-> x, failed_sql |-> FALSE, error |-> ""] :
        b \in BOOLEAN, x \in BOOLEAN}
    \cup {[status |-> "error", sql |-> FALSE, explanation |-> FALSE, failed_sql |-> b,
            error |-> e] : b \in BOOLEAN, e \in PlannerErrors}

ImMainVarsUnchanged == UNCHANGED <<uiVars, opVars, histVars, cacheVars, authVars, callVars, msgVars>>

\* getCredentials(databaseId) of the mount resolves: setCredentials
ImCredentialsLoaded ==
    /\ imCredentials = "requested"
    /\ imCredentials' = "loaded"
    /\ UNCHANGED <<imQuery, imLoading, imGeneratedSQL, imSqlExplanation, imQueryResults, imError,
                   imFailedSQL, imOp>>
    /\ ImMainVarsUnchanged

\* getCredentials(databaseId) of the mount rejects
ImCredentialsFailed ==
    /\ imCredentials = "requested"
    /\ imCredentials' = "failed"
    /\ imError' = CredentialsFailed
    /\ UNCHANGED <<imQuery, imLoading, imGeneratedSQL, imSqlExplanation, imQueryResults, imFailedSQL, imOp>>
    /\ ImMainVarsUnchanged

\* onChange of the textarea
ImSetQuery(t) ==
    /\ ~(imLoading \/ imGeneratedSQL)
    /\ t # imQuery
    /\ imQuery' = t
    /\ UNCHANGED <<imLoading, imCredentials, imGeneratedSQL, imSqlExplanation, imQueryResults, imError,
                   imFailedSQL, imOp>>
    /\ ImMainVarsUnchanged

\* handleSubmitQuery up to the await of processQueryImproved
ImHandleSubmitQuery ==
    /\ ~(imLoading \/ imGeneratedSQL \/ imCredentials # "loaded")
    /\ Trim(imQuery) # "" /\ imCredentials = "loaded"
    /\ imLoading' = TRUE
    /\ imError' = NoError
    /\ imQueryResults' = FALSE
    /\ imGeneratedSQL' = FALSE
    /\ imOp' = [kind |-> "plan", body |-> ProcessQueryImprovedBody(imQuery)]
    /\ UNCHANGED <<imQuery, imCredentials, imSqlExplanation, imFailedSQL>>
    /\ ImMainVarsUnchanged

\* processQueryImproved returns
ImSubmitResponse ==
    /\ imOp # Idle /\ imOp.kind = "plan"
    /\ \E r \in ImprovedResponses :
         /\ imGeneratedSQL' = IF r.status = "ready" /\ r.sql THEN TRUE ELSE imGeneratedSQL
         /\ imSqlExplanation' = IF r.status = "ready" /\ r.sql THEN r.explanation
                                ELSE imSqlExplanation
         /\ imError' = IF r.status = "ready" /\ r.sql THEN imError
                       ELSE IF r.status = "error"
                            THEN (IF r.error = "" THEN UnknownLLMError ELSE r.error)
                            ELSE imError
         /\ imFailedSQL' = IF r.status = "error" /\ r.failed_sql THEN TRUE ELSE imFailedSQL
    /\ imLoading' = FALSE
    /\ imOp' = Idle
    /\ UNCHANGED <<imQuery, imCredentials, imQueryResults>>
    /\ ImMainVarsUnchanged

\* processQueryImproved throws
ImSubmitFailure ==
    /\ imOp # Idle /\ imOp.kind = "plan"
    /\ imError' = ProcessFailed
    /\ imLoading' = FALSE
    /\ imOp' = Idle
    /\ UNCHANGED <<imQuery, imCredentials, imGeneratedSQL, imSqlExplanation, imQueryResults, imFailedSQL>>
    /\ ImMainVarsUnchanged

\* handleExecuteSQL up to the await of executeSqlQuery
ImHandleExecuteSQL ==
    /\ imGeneratedSQL /\ ~imQueryResults /\ ~imLoading
    /\ imLoading' = TRUE
    /\ imError' = NoError
    /\ imFailedSQL' = FALSE
    /\ imOp' = [kind |-> "execute", body |-> NoBody]
    /\ UNCHANGED <<imQuery, imCredentials, imGeneratedSQL, imSqlExplanation, imQueryResults>>
    /\ ImMainVarsUnchanged

\* executeSqlQuery returns rows
ImExecuteSuccess ==
    /\ imOp # Idle /\ imOp.kind = "execute"
    /\ imQueryResults' = TRUE
    /\ imLoading' = FALSE
    /\ imOp' = Idle
    /\ UNCHANGED <<imQuery, imCredentials, imGeneratedSQL, imSqlExplanation, imError, imFailedSQL>>
    /\ ImMainVarsUnchanged

\* executeSqlQuery throws: the error is shown and, with credentials,
\* sendErrorFeedbackImproved is sent
ImExecuteFailure ==
    /\ imOp # Idle /\ imOp.kind = "execute"
    /\ \E e \in ExecutorErrors :
         /\ imError' = e
         /\ IF imCredentials = "loaded"
            THEN /\ imOp' = [kind |-> "feedback", body |-> SendErrorFeedbackImprovedBody,
                             errorMessage |-> e]
                 /\ UNCHANGED imLoading
            ELSE /\ imOp' = Idle
                 /\ imLoading' = FALSE
    /\ imFailedSQL' = TRUE
    /\ UNCHANGED <<imQuery, imCredentials, imGeneratedSQL, imSqlExplanation, imQueryResults>>
    /\ ImMainVarsUnchanged

\* sendErrorFeedbackImproved returns
ImFeedbackResponse ==
    /\ imOp # Idle /\ imOp.kind = "feedback"
    /\ \E r \in ImprovedResponses :
         /\ imGeneratedSQL' = IF r.status = "ready" /\ r.sql THEN TRUE ELSE imGeneratedSQL
         /\ imSqlExplanation' = IF r.status = "ready" /\ r.sql THEN r.explanation
                                ELSE imSqlExplanation
         /\ imError' = IF r.status = "ready" /\ r.sql THEN CorrectedVersion(imOp.errorMessage)
                       ELSE IF r.status = "error"
                            THEN CorrectionFailed(imOp.errorMessage,
                                     IF r.error = "" THEN NoCorrection ELSE r.error)
                       ELSE imError
         /\ imFailedSQL' = IF r.status = "error" /\ r.failed_sql THEN TRUE ELSE imFailedSQL
    /\ imLoading' = FALSE
    /\ imOp' = Idle
    /\ UNCHANGED <<imQuery, imCredentials, imQueryResults>>
    /\ ImMainVarsUnchanged

\* sendErrorFeedbackImproved throws
ImFeedbackFailure ==
    /\ imOp # Idle /\ imOp.kind = "feedback"
    /\ imError' = FeedbackNotSent(imOp.errorMessage)
    /\ imLoading' = FALSE
    /\ imOp' = Idle
    /\ UNCHANGED <<imQuery, imCredentials, imGeneratedSQL, imSqlExplanation, imQueryResults, imFailedSQL>>
    /\ ImMainVarsUnchanged

\* handleNewQuery of the Cancel and New Query buttons
ImHandleNewQuery ==
    /\ imGeneratedSQL \/ imQueryResults
    /\ imQuery' = ""
    /\ imGeneratedSQL' = FALSE
    /\ imSqlExplanation' = FALSE
    /\ imQueryResults' = FALSE
    /\ imError' = NoError
    /\ imFailedSQL' = FALSE
    /\ UNCHANGED <<imLoading, imCredentials, imOp>>
    /\ ImMainVarsUnchanged

NextImproved ==
    \/ ImCredentialsLoaded
    \/ ImCredentialsFailed
    \/ \E t \in QueryTexts : ImSetQuery(t)
    \/ ImHandleSubmitQuery
    \/ ImSubmitResponse
    \/ ImSubmitFailure
    \/ ImHandleExecuteSQL
    \/ ImExecuteSuccess
    \/ ImExecuteFailure
    \/ ImFeedbackResponse
    \/ ImFeedbackFailure
    \/ ImHandleNewQuery

----------------------------------------------------------------------------
(* Metadata submitted to the reasoning server, and its metadata cache *)

\* steps of the server's clock in a behaviour of SpecMerge
MaxClock == 3

Tables == {"users", "orders"}
\* the column lists the Executor may report for a table
ColumnLists == {<<"id">>, <<"id", "email">>}
\* foreign keys of the datastore
Relationships ==
    { [fromTable |-> "orders", fromColumn |-> "user_id", toTable |-> "users", toColumn |-> "id"],
      [fromTable |-> "users", fromColumn |-> "last_order", toTable |-> "orders", toColumn |-> "id"] }

SeqsUpTo2(S) == {<<>>} \cup {<<x>> : x \in S} \cup {<<x, y>> : x \in S, y \in S}

\* what getDatabaseTables and getDatabaseTableSchema return
TableLists == SeqsUpTo2(Tables)
SchemaArrays == SeqsUpTo2({[table_name |-> t, columns |-> c] : t \in Tables, c \in ColumnLists})

\* metadata = { tables: tables.map((t) => t.name) }
TablesPayload(tables) == [metadata_type |-> "tables", data |-> tables]

\* schemaDict: schemas.forEach(s => schemaDict[s.table_name] = s.columns)
SchemaDict(schemas) ==
    [t \in {schemas[i].table_name : i \in DOMAIN schemas} |->
        LET last == CHOOSE i \in DOMAIN schemas :
                        /\ schemas[i].table_name = t
                        /\ \A j \in DOMAIN schemas : schemas[j].table_name = t => j <= i
        IN  schemas[last].columns]

SchemaPayload(schemas) == [metadata_type |-> "schema", data |-> SchemaDict(schemas)]

\* metadata = { relationships }
RelationshipsPayload(relationships) ==
    [metadata_type |-> "relationships", data |-> relationships]

\* the bodies submitMetadata can carry
Payloads ==
    {TablesPayload(x) : x \in TableLists}
    \cup {SchemaPayload(x) : x \in SchemaArrays}
    \cup {RelationshipsPayload(x) : x \in SUBSET Relationships}

NoPayload == [metadata_type |-> "none", data |-> <<>>]
NotMerged == [payload |-> NoPayload, times |-> 0, concurrent |-> NoPayload]

\* MetadataCacheEntry; Absent before the first merge and after invalidation
Never == 0
Absent == [tables |-> {}, schemas |-> <<>>, relationships |-> {}, mergedAt |-> Never]

\* keyed upsert that extends the column list of a known table
UpsertAppending(old, new) ==
    [t \in DOMAIN old \cup DOMAIN new |->
        IF t \in DOMAIN new
        THEN (IF t \in DOMAIN old THEN old[t] \o new[t] ELSE new[t])
        ELSE old[t]]

\* schemas merge as keyed upsert by table name
Upsert(old, new) ==
    [t \in DOMAIN old \cup DOMAIN new |-> IF t \in DOMAIN new THEN new[t] ELSE old[t]]

\* a merge that keeps only the table names of the last payload
MergeReplacingTables(e, p, now) ==
    IF p.metadata_type = "tables"
    THEN [e EXCEPT !.tables = {p.data[i] : i \in DOMAIN p.data}, !.mergedAt = now]
    ELSE IF p.metadata_type = "schema"
    THEN [e EXCEPT !.schemas = Upsert(@, p.data), !.mergedAt = now]
    ELSE [e EXCEPT !.relationships = @ \cup p.data, !.mergedAt = now]

\* MetadataCache.merge at time now
Merge(e, p, now) ==
    IF p.metadata_type = "tables"
    THEN [e EXCEPT !.tables = @ \cup {p.data[i] : i \in DOMAIN p.data}, !.mergedAt = now]
    ELSE IF p.metadata_type = "schema"
    THEN [e EXCEPT !.schemas = Upsert(@, p.data), !.mergedAt = now]
    ELSE [e EXCEPT !.relationships = @ \cup p.data, !.mergedAt = now]

\* MetadataCache.get without the timestamp
Snapshot(e) == [tables |-> e.tables, schemas |-> e.schemas, relationships |-> e.relationships]

ClientVarsUnchanged ==
    UNCHANGED <<uiVars, opVars, imVars, histVars, callVars, msgVars, authVars>>

\* the server handles POST /metadata of submitMetadata
SubmitMetadata(p) ==
    /\ clock < MaxClock
    /\ clock' = clock + 1
    /\ cache' = Merge(cache, p, clock')
    /\ swapped' = Merge(swapped, p, clock')
    /\ lastMerge' = [payload |-> p,
                     times |-> IF lastMerge.payload = p THEN lastMerge.times + 1 ELSE 1,
                     concurrent |-> NoPayload]
    /\ ClientVarsUnchanged

\* two conversations on the datastore submit metadata together: the server
\* handles one after the other, in either order
ConcurrentSubmitMetadata(p, q) ==
    /\ clock + 2 <= MaxClock
    /\ clock' = clock + 2
    /\ cache' = Merge(Merge(cache, p, clock + 1), q, clock')
    /\ swapped' = Merge(Merge(swapped, q, clock + 1), p, clock')
    /\ lastMerge' = [payload |-> q, times |-> 1, concurrent |-> p]
    /\ ClientVarsUnchanged

\* MetadataCache.invalidate
Invalidate ==
    /\ cache # Absent
    /\ cache' = Absent
    /\ swapped' = Absent
    /\ lastMerge' = NotMerged
    /\ UNCHANGED clock
    /\ ClientVarsUnchanged

NextMerge ==
    \/ \E p \in Payloads : SubmitMetadata(p)
    \/ \E p \in Payloads, q \in Payloads : ConcurrentSubmitMetadata(p, q)
    \/ Invalidate

----------------------------------------------------------------------------
(* Auth service *)

\* what a storage holds under a key that was never set or was removed
NoValue == "null"
AccessToken == "access_token"
User == "user"
Empty == [TOKEN_KEY |-> NoValue, USER_KEY |-> NoValue]

\* the invoke of a try block that throws: the one for TOKEN_KEY, the one for
\* USER_KEY, or none
Throws == {"TOKEN_KEY", "USER_KEY", "none"}

\* getToken: get_secure_storage of TOKEN_KEY (token || null), and
\* localStorage.getItem when the invoke throws
GetToken(secure, local, thrown) == IF thrown THEN local.TOKEN_KEY ELSE secure.TOKEN_KEY

\* the secure storage after the try block of saveAuthData or clearAuthData
\* that writes value v under the keys (NoValue removes)
TryBlock(secure, token, user, thrown) ==
    IF thrown = "TOKEN_KEY" THEN secure
    ELSE IF thrown = "USER_KEY" THEN [secure EXCEPT !.TOKEN_KEY = token]
    ELSE [TOKEN_KEY |-> token, USER_KEY |-> user]

\* localStorage after the catch block, entered when an invoke has thrown
CatchBlock(local, token, user, thrown) ==
    IF thrown = "none" THEN local ELSE [TOKEN_KEY |-> token, USER_KEY |-> user]

\* saveAuthData(token, user)
SaveAuthData(token, user, thrown) ==
    /\ secureStorage' = TryBlock(secureStorage, token, user, thrown)
    /\ localStorage' = CatchBlock(localStorage, token, user, thrown)

\* clearAuthData()
ClearAuthData(thrown) ==
    /\ secureStorage' = TryBlock(secureStorage, NoValue, NoValue, thrown)
    /\ localStorage' = CatchBlock(localStorage, NoValue, NoValue, thrown)

AppVarsUnchanged ==
    UNCHANGED <<uiVars, opVars, imVars, histVars, cacheVars, callVars, msgVars>>

\* login or register answered with response.ok: saveAuthData
Login ==
    /\ \E thrown \in Throws : SaveAuthData(AccessToken, User, thrown)
    /\ session' = TRUE
    /\ outcome' = "logged in"
    /\ UNCHANGED <<fetching, loggingOut>>
    /\ AppVarsUnchanged

\* authenticatedFetch up to its fetch: without a token it throws
AuthenticatedFetch ==
    /\ ~fetching
    /\ \E thrown \in BOOLEAN :
         IF GetToken(secureStorage, localStorage, thrown) = NoValue
         THEN /\ outcome' = "Not authenticated"
              /\ UNCHANGED fetching
         ELSE /\ fetching' = TRUE
              /\ UNCHANGED outcome
    /\ UNCHANGED <<secureStorage, localStorage, loggingOut, session>>
    /\ AppVarsUnchanged

\* the statuses of a response the model tells apart
Statuses == {200, 401, 404}

\* authenticatedFetch after its fetch: 401 clears the auth data and throws,
\* any other response is returned
FetchResponse(status) ==
    /\ fetching
    /\ fetching' = FALSE
    /\ IF status = 401
       THEN /\ \E thrown \in Throws : ClearAuthData(thrown)
            /\ outcome' = "Session expired. Please login again."
       ELSE /\ outcome' = "response"
            /\ UNCHANGED <<secureStorage, localStorage>>
    /\ UNCHANGED <<loggingOut, session>>
    /\ AppVarsUnchanged

\* logout with a token, up to its fetch of /auth/logout
LogoutWithToken ==
    /\ ~loggingOut
    /\ \E thrown \in BOOLEAN : GetToken(secureStorage, localStorage, thrown) # NoValue
    /\ loggingOut' = TRUE
    /\ UNCHANGED <<secureStorage, localStorage, fetching, outcome, session>>
    /\ AppVarsUnchanged

\* logout without a token: clearAuthData at once
LogoutWithoutToken ==
    /\ ~loggingOut
    /\ \E thrown \in BOOLEAN : GetToken(secureStorage, localStorage, thrown) = NoValue
    /\ \E thrown \in Throws : ClearAuthData(thrown)
    /\ outcome' = "logged out"
    /\ UNCHANGED <<fetching, loggingOut, session>>
    /\ AppVarsUnchanged

\* the fetch of /auth/logout is answered, or throws and is logged:
\* clearAuthData either way
LogoutDone(answered) ==
    /\ loggingOut
    /\ loggingOut' = FALSE
    /\ session' = (session /\ ~answered)
    /\ \E thrown \in Throws : ClearAuthData(thrown)
    /\ outcome' = "logged out"
    /\ UNCHANGED fetching
    /\ AppVarsUnchanged

NextAuth ==
    \/ Login
    \/ AuthenticatedFetch
    \/ \E status \in Statuses : FetchResponse(status)
    \/ LogoutWithToken
    \/ LogoutWithoutToken
    \/ \E answered \in BOOLEAN : LogoutDone(answered)

----------------------------------------------------------------------------
(* Specification *)

InitState ==
    /\ query = ""
    /\ loading = FALSE
    /\ conversationId = NoConv
    /\ deleted = {}
    /\ pendingMetadataRequest = NoRequest
    /\ queryResults = FALSE
    /\ error = NoError
    /\ executingMessageId = NoMessage
    /\ autoMode = FALSE
    /\ maxAutoApprovals = DefaultMaxAutoApprovals
    /\ autoApprovalCount = 0
    /\ maLoading = FALSE
    /\ isAutoApproving = FALSE
    /\ submitOp = Idle
    /\ approvals = <<>>
    /\ execOp = Idle
    /\ created = {}
    /\ imQuery = ""
    /\ imLoading = FALSE
    /\ imCredentials = "requested"
    /\ imGeneratedSQL = FALSE
    /\ imSqlExplanation = FALSE
    /\ imQueryResults = FALSE
    /\ imError = NoError
    /\ imFailedSQL = FALSE
    /\ imOp = Idle
    /\ autoStarted = 0
    /\ capReached = {}
    /\ consecutiveFailures = 0
    /\ waited = 0
    /\ cache = Absent
    /\ swapped = Absent
    /\ lastMerge = NotMerged
    /\ clock = 0
    /\ secureStorage = Empty
    /\ localStorage = Empty
    /\ fetching = FALSE
    /\ loggingOut = FALSE
    /\ outcome = "none"
    /\ session = FALSE
    /\ resolved = <<>>
    /\ messagesOf = NoConv
    /\ thread = <<>>
    /\ loads = {}
    /\ turns = [c \in Convs |-> 0]

\* what a behaviour keeps of the history and of the message list
Recorded(cap, failures, calls, msgs) ==
    /\ recordCap = cap /\ recordFailures = failures
    /\ recordResolved = calls /\ recordMessages = msgs

Init == InitState /\ Recorded(FALSE, FALSE, FALSE, FALSE)

InitCap == InitState /\ Recorded(TRUE, FALSE, FALSE, FALSE)

InitRetry == InitState /\ Recorded(FALSE, TRUE, FALSE, FALSE)

InitResolved == InitState /\ Recorded(FALSE, FALSE, TRUE, FALSE)

InitMessages == InitState /\ Recorded(FALSE, FALSE, FALSE, TRUE)

\* the controls of auto-mode
NextAutoMode ==
    \/ SetAutoMode
    \/ \E v \in BoundInputs : SetMaxAutoApprovals(v)

\* the conversation: messages, approvals by the user, executions
\* the messages, the conversations and the metadata negotiation
NextNegotiation ==
    \/ \E t \in QueryTexts : SetQuery(t)
    \/ HandleSubmitQuery
    \/ SubmitResponse
    \/ SubmitFailure
    \/ SubmitRefreshDone
    \/ \E c \in Convs : HandleSelectConversation(c)
    \/ HandleNewConversation
    \/ ApproveClick
    \/ RejectClick
    \/ DialogClose
    \/ \E i \in 1..MaxApprovals : FetchDone(i)
    \/ \E i \in 1..MaxApprovals : SubmitMetadataDone(i)
    \/ \E i \in 1..MaxApprovals : ContinueDone(i)
    \/ \E i \in 1..MaxApprovals : ApprovalFailure(i)

\* the execution of SQL and its error correction
NextExecution ==
    \/ \E m \in MessageIds : HandleExecuteSQL(m)
    \/ ExecuteSuccess
    \/ ExecuteFailure
    \/ FeedbackDone
    \/ FeedbackFailure
    \/ ExecRefreshDone
    \/ HandleNewQuery

NextConversation == NextNegotiation \/ NextExecution

Next == NextAutoMode \/ NextConversation

Spec == Init /\ [][Next]_vars

\* the negotiation with the auto-mode controls, the execution of SQL left out
NextAutoApproval == NextAutoMode \/ NextNegotiation

\* the negotiation with capReached recorded
SpecCap == InitCap /\ [][NextAutoApproval]_vars

\* the conversation with consecutiveFailures recorded, auto-mode left off
SpecRetry == InitRetry /\ [][NextConversation]_vars

\* the negotiation with the calls of onApproved and onRejected recorded
SpecResolved == InitResolved /\ [][NextAutoApproval]_vars

NextMessages == NextConversation \/ \E c \in Convs : LoadDone(c)

\* the program with its message list, auto-mode left off
SpecMessages == InitMessages /\ [][NextMessages]_vars

\* the auth service
SpecAuth == Init /\ [][NextAuth]_vars

NextHistory == NextConversation \/ \E c \in Convs : HandleDelete(c)

\* the program with the Delete buttons of the history list, auto-mode left
\* off
SpecHistory == Init /\ [][NextHistory]_vars

\* the deadlines a call may take: its own and that of one retry
MaxDeadlines == 2

\* a deadline of the Planner call in flight passes without an answer
Tick ==
    /\ submitOp # Idle /\ submitOp.stage = "plan"
    /\ waited <= MaxDeadlines
    /\ waited' = waited + 1
    /\ UNCHANGED <<uiVars, opVars, imVars, autoStarted, capReached, recordCap,
                   consecutiveFailures, recordFailures, cacheVars, authVars, callVars, msgVars>>

NextTimed == Next \/ Tick

\* the same program with the passing of time
SpecTimed == Init /\ [][NextTimed]_vars

\* the answers of the calls in flight: the reasoning server, the Executor and
\* the conversation store answer or fail, and the event loop runs the handler
SubmitAnswers == SubmitResponse \/ SubmitFailure \/ SubmitRefreshDone

ApprovalAnswers ==
    \E i \in 1..MaxApprovals :
        FetchDone(i) \/ SubmitMetadataDone(i) \/ ContinueDone(i) \/ ApprovalFailure(i)

ExecAnswers ==
    ExecuteSuccess \/ ExecuteFailure \/ FeedbackDone \/ FeedbackFailure \/ ExecRefreshDone

\* the same program when every call in flight is answered
SpecAnswered ==
    /\ Init /\ [][Next]_vars
    /\ WF_vars(SubmitAnswers) /\ WF_vars(ApprovalAnswers) /\ WF_vars(ExecAnswers)

\* the behaviours of QueryInterfaceImproved
SpecImproved == Init /\ [][NextImproved]_vars

\* the metadata cache under the submissions of the conversations
SpecMerge == Init /\ [][NextMerge]_vars

----------------------------------------------------------------------------
(* Structure of the reachable states *)

TypeOK ==
    /\ query \in QueryTexts
    /\ loading \in BOOLEAN
    /\ conversationId \in Convs \cup {NoConv}
    /\ deleted \subseteq created
    /\ autoMode \in BOOLEAN
    /\ maxAutoApprovals \in Int
    /\ autoApprovalCount \in Nat
    /\ created \subseteq Convs
    /\ loading <=> submitOp # Idle
    /\ Mounted(Cur) => conversationId # NoConv
    /\ ~Mounted(Cur) => ~maLoading /\ ~isAutoApproving
    /\ \A i \in DOMAIN approvals : approvals[i].conv \in created
    /\ imQuery \in QueryTexts
    /\ imCredentials \in {"requested", "loaded", "failed"}
    /\ imLoading <=> imOp # Idle
    /\ imGeneratedSQL => imCredentials = "loaded"

----------------------------------------------------------------------------
(* Claims *)

AutoInFlight == {i \in DOMAIN approvals : approvals[i].isAuto}
ManualInFlight == {i \in DOMAIN approvals : ~approvals[i].isAuto}

\* C1: in every reachable state the auto-approval counter is at most the
\* configured bound.
C1_CounterWithinBound == autoApprovalCount <= maxAutoApprovals

\* C2 as stated: in one conversation no more than HardCap requests are
\* auto-approved; once the counter has reached HardCap in a conversation, no
\* request of that conversation is fetched by an auto-approval.
C2_AtMostCapPerConversation ==
    \A i \in AutoInFlight : approvals[i].conv \notin capReached

\* C2 amended: no more than HardCap consecutive requests are auto-approved
\* while the dialog stays open, and while the counter is at or above the
\* bound no auto-approved round-trip is in flight.
C2_AtMostCapConsecutive ==
    /\ autoStarted <= HardCap
    /\ (autoApprovalCount >= maxAutoApprovals => AutoInFlight = {})

C2_Witness == autoStarted = HardCap /\ autoApprovalCount = HardCap /\ Mounted(Cur)

\* the request is shown and neither approved nor rejected yet
AwaitingDecision == Mounted(Cur) /\ ~maLoading /\ approvals = <<>>

\* while auto-mode is on: below the bound the open request is being
\* auto-approved, at the bound it is not, and every auto-approval started
\* since the dialog opened is either counted or still in flight
AutoApprovalProgress ==
    Mounted(Cur) /\ autoMode =>
        /\ (autoApprovalCount < maxAutoApprovals => AutoInFlight # {})
        /\ (autoApprovalCount >= maxAutoApprovals => AutoInFlight = {})
        /\ autoApprovalCount >= autoStarted - Cardinality(AutoInFlight)

\* the counter moves up one step at a time
CounterStep ==
    autoApprovalCount' > autoApprovalCount =>
        autoApprovalCount' = autoApprovalCount + 1

\* at the bound the request leaves the dialog only by the user's decision
BlockedUntilDecision ==
    AwaitingDecision /\ autoMode /\ autoApprovalCount >= maxAutoApprovals =>
        \/ pendingMetadataRequest' = pendingMetadataRequest /\ approvals' = approvals
        \/ pendingMetadataRequest' = NoRequest /\ error' = RejectedByUser
        \/ Len(approvals') = 1 /\ ~approvals'[1].isAuto

\* C3: with auto-mode on, the requests are auto-approved while the counter
\* is below the bound, the counter moves one step per auto-approval, and at
\* the bound the request stays pending until the user approves or rejects.
C3_ScenarioC ==
    /\ []AutoApprovalProgress
    /\ [][CounterStep /\ BlockedUntilDecision]_vars

C3_Witness ==
    /\ autoMode /\ maxAutoApprovals = 2
    /\ autoStarted = 2 /\ autoApprovalCount = 2
    /\ AwaitingDecision

\* an auto-approved round-trip leaves the calls in flight in this step
AutoApprovalEnds ==
    /\ AutoInFlight # {}
    /\ Len(approvals') < Len(approvals)

\* C4 as stated: every synthesized approval increments the counter.
C4_EveryAutoApprovalCounted ==
    [][AutoApprovalEnds => autoApprovalCount' = autoApprovalCount + 1]_vars

\* below the bound the open request has its auto-approval in flight
AutoApprovalInFlight ==
    Mounted(Cur) /\ autoMode /\ autoApprovalCount < maxAutoApprovals =>
        /\ isAutoApproving /\ maLoading
        /\ \E i \in AutoInFlight :
              /\ approvals[i].live
              /\ approvals[i].req = pendingMetadataRequest.metadata_request

\* an auto-approval ends counted, or rejected with the counter unchanged
CountedOrRejected ==
    AutoApprovalEnds =>
        \/ autoApprovalCount' = autoApprovalCount + 1
        \/ /\ autoApprovalCount' = autoApprovalCount
           /\ pendingMetadataRequest' = NoRequest
           /\ error' = RejectedByUser

\* C4 amended: a pending request with auto-mode on and the counter below the
\* bound has its approval round-trip in flight without a user event, and the
\* counter is incremented when that round-trip succeeds; when it fails the
\* request is rejected and the counter is unchanged.
C4_AutoApprovalSynthesized ==
    /\ []AutoApprovalInFlight
    /\ [][CountedOrRejected]_vars

C4_Witness ==
    /\ autoApprovalCount = 1
    /\ \E i \in AutoInFlight : approvals[i].stage = "fetch"

\* C5: while auto-mode is off or the counter has reached the bound, every
\* Executor call, metadata submission and continuation in flight belongs to
\* an approval the user clicked.
C5_ManualUnlessAuto ==
    (~autoMode \/ autoApprovalCount >= maxAutoApprovals) => AutoInFlight = {}

C5_Witness ==
    /\ ~autoMode
    /\ \E i \in ManualInFlight : approvals[i].stage = "submit"

\* C6: the counter never decreases while the active conversation stays the
\* same, and it is zero right after the active conversation changes.
C6_CounterMonotonic ==
    [][/\ conversationId' = conversationId => autoApprovalCount' >= autoApprovalCount
       /\ conversationId' # conversationId => autoApprovalCount' = 0]_vars

C6_Witness ==
    /\ capReached # {}
    /\ conversationId \in Convs \ capReached
    /\ autoApprovalCount = 0

\* C7: the stored bound is an integer between 1 and 10.
C7_BoundInRange == maxAutoApprovals \in MinBound..HardCap

C7_Witness == maxAutoApprovals = HardCap /\ autoApprovalCount = 0

\* the request bodies on their way to the reasoning server
ApprovalBody(op) ==
    IF op.stage = "submit" THEN SubmitMetadataBody(op.conv)
    ELSE IF op.stage = "continue" THEN ProcessQueryBody("", op.conv)
    ELSE NoBody

RequestsInFlight ==
    ({submitOp.body : x \in IF submitOp # Idle THEN {1} ELSE {}}
     \cup {execOp.body : x \in IF execOp # Idle THEN {1} ELSE {}}
     \cup {imOp.body : x \in IF imOp # Idle THEN {1} ELSE {}}
     \cup {ApprovalBody(approvals[i]) : i \in DOMAIN approvals}) \ {NoBody}

\* C8: no request sent to the reasoning server contains database
\* credentials (host, port, username, password, file path, connection data).
C8_NoCredentialsSent ==
    \A b \in RequestsInFlight : b.fields \cap CredentialFields = {}

\* the Planner calls of conversation c in flight: the follow-up message, the
\* continuations after a metadata submission, the error feedback
PlannerCalls(c) ==
    (IF submitOp # Idle /\ submitOp.stage = "plan" /\ submitOp.conv = c THEN 1 ELSE 0)
    + Cardinality({i \in DOMAIN approvals :
                     approvals[i].stage = "continue" /\ approvals[i].conv = c})
    + (IF execOp # Idle /\ execOp.stage = "feedback" /\ execOp.conv = c THEN 1 ELSE 0)

\* C9: at most one Planner call is in flight per conversation at any time; a
\* message submitted during a round-trip of its conversation is not sent
\* concurrently with it.
C9_OnePlannerCallPerConversation ==
    \A c \in Convs : PlannerCalls(c) <= 1

\* a round-trip started in a conversation the user has left since
SubmitAbandoned ==
    submitOp # Idle /\ submitOp.stage = "plan" /\ submitOp.conv # conversationId

\* C10: when the response of a round-trip arrives after the user has started
\* a new conversation or selected another one, it changes neither the active
\* conversation id, nor the pending metadata request, nor the error state,
\* nor the auto-approval counter.
C10_LateResponseIgnored ==
    [][SubmitAbandoned /\ submitOp' # submitOp =>
         UNCHANGED <<conversationId, pendingMetadataRequest, error, autoApprovalCount>>]_vars

\* the continuation of approval i is answered in this step
ContinuationAnswered(i) ==
    /\ i \in DOMAIN approvals
    /\ approvals[i].stage = "continue"
    /\ i \notin DOMAIN approvals' \/ approvals'[i] # approvals[i]

\* C11: a metadata request that was just fetched and merged is not pending
\* again after its continuation: the Planner asking for it a second time ends
\* in an error, and no second Executor round-trip starts for it.
C11_RepeatedRequestIsError ==
    [][\A i \in DOMAIN approvals :
          ContinuationAnswered(i) =>
              /\ pendingMetadataRequest'.metadata_request # approvals[i].req
              /\ \A j \in DOMAIN approvals' :
                    approvals'[j].stage = "fetch" => approvals'[j].req # approvals[i].req]_vars

\* C12: after RetryLimit consecutive failed executions in one conversation no
\* further error-correction call is sent to the Planner.
C12_NoFourthCorrection ==
    execOp # Idle /\ execOp.stage = "feedback" /\ execOp.conv = conversationId
        => consecutiveFailures <= RetryLimit

\* a text without content
Blank(t) == t \in {"", " "}

\* the continuations in flight
Continuations ==
    {ApprovalBody(approvals[i]) : i \in {j \in DOMAIN approvals : approvals[j].stage = "continue"}}

\* C13: a message the user submits is sent only with content; the only
\* request with an empty query is the continuation after an approved fetch,
\* which goes to /query with the conversation id and leaves the input alone.
C13_NoEmptyUserMessage ==
    /\ submitOp # Idle /\ submitOp.stage = "plan" => ~Blank(submitOp.body.query)
    /\ \A b \in RequestsInFlight :
          b.endpoint \in {"/query", "/conversations/message"} /\ Blank(b.query) =>
              /\ b \in Continuations
              /\ b.endpoint = "/query" /\ b.conv # NoConv /\ b.query = ""

C13_Witness ==
    /\ Continuations # {}
    /\ \A b \in Continuations : b.query = ""
    /\ submitOp = Idle

\* the steps of an approval in their order; after the continuation the next
\* approval of the dialog may start
NextStage(st) ==
    IF st = "fetch" THEN "submit" ELSE IF st = "submit" THEN "continue" ELSE "fetch"

\* an approval in flight stays at its step or moves to the next one
StageOrder ==
    \A i \in DOMAIN approvals \cap DOMAIN approvals' :
        \/ approvals'[i] = approvals[i]
        \/ approvals'[i] = [approvals[i] EXCEPT !.stage = NextStage(@)]
              /\ approvals[i].stage # "continue"
        \/ approvals[i].stage = "continue" /\ approvals'[i].stage = "fetch"
        \/ approvals'[i] = [approvals[i] EXCEPT !.live = FALSE]

\* a failed step ends the approval: nothing of it stays in flight, and the
\* request is closed as rejected
FailureEndsApproval ==
    \A i \in DOMAIN approvals :
        approvals[i].stage # "continue" /\ i \notin DOMAIN approvals' =>
            pendingMetadataRequest' = NoRequest /\ approvals' = <<>>

\* a request of a known metadata type, with table names when it asks for schemas
WellFormed(req) ==
    /\ req.metadata_type \in {"tables", "schema", "relationships"}
    /\ req.metadata_type = "schema" => req.tables >= 1

\* C14: an approval fetches, then submits the metadata, then sends the
\* continuation, each step only after the one before has succeeded; a request
\* the switch has no Executor call for starts no step at all.
C14_FetchMergeContinue ==
    /\ [](\A i \in DOMAIN approvals : WellFormed(approvals[i].req))
    /\ [][StageOrder /\ FailureEndsApproval]_vars
    /\ [][\A i \in DOMAIN approvals' :
             i \notin DOMAIN approvals => approvals'[i].stage = "fetch"]_vars

C14_Witness ==
    \E i \in DOMAIN approvals :
        approvals[i].stage = "continue" /\ approvals[i].req.metadata_type = "schema"

\* the user rejects the request of the open dialog (Reject, Escape, backdrop)
RejectStep ==
    /\ AwaitingDecision
    /\ pendingMetadataRequest' = NoRequest
    /\ error' = RejectedByUser

\* C15: a rejection is recorded in the conversation, which is kept by the
\* server: the step that rejects a request sends a request that records it.
C15_RejectionRecorded ==
    [][RejectStep => RequestsInFlight' \ RequestsInFlight # {}]_vars

\* the approval in flight ends in this step
ApprovalEnds == approvals # <<>> /\ approvals' = <<>>

\* C16: the failure of the Executor fetch, of the metadata submission or of
\* the continuation is shown with its own message: the error shown when an
\* approval in flight ends is never the text of a rejection by the user.
C16_FailureKeepsMessage ==
    [][ApprovalEnds => error' # RejectedByUser]_vars

\* the execution in flight fails in this step
ExecutionFails ==
    /\ execOp # Idle /\ execOp.stage = "execute"
    /\ execOp' # execOp
    /\ ~queryResults'

\* C17: a failed execution sends one error-correction call for its
\* conversation, with the SQL that was executed and the error text the
\* Executor reported, which is also the error shown.
C17_OneCorrectionPerFailure ==
    [][ExecutionFails =>
         /\ execOp' # Idle /\ execOp'.stage = "feedback"
         /\ execOp'.body = SendErrorFeedbackBody(execOp.conv)
         /\ execOp'.feedback.sql = execOp.sql
         /\ execOp'.feedback.error_message = error'
         /\ error' \in ExecutorErrors]_vars

C17_Witness ==
    /\ execOp # Idle /\ execOp.stage = "feedback"
    /\ execOp.feedback = [sql |-> "m1", error_message |-> "syntax error"]
    /\ error = "syntax error"

\* the turn of the submitted message is over, or waits for the user's decision
TurnResolved ==
    /\ submitOp = Idle /\ approvals = <<>>
    /\ pendingMetadataRequest = NoRequest \/ AwaitingDecision

\* C18: a submitted message reaches the end of its turn: its calls are
\* answered and no request stays pending, unless the dialog waits for the
\* user's decision.
C18_EveryMessageAnswered ==
    submitOp # Idle ~> TurnResolved

\* C20: a pending request is shown in the dialog, where it can be approved
\* or rejected.
C20_PendingRequestIsShown ==
    pendingMetadataRequest # NoRequest => Mounted(Cur)

\* C19: a Planner call is over when its deadline and the deadline of one
\* retry have passed: the turn has ended and the form accepts input again.
C19_CallEndsByDeadline ==
    submitOp # Idle /\ submitOp.stage = "plan" => waited <= MaxDeadlines

\* an execution of SQL on the Executor starts in this step
ExecutionStarts ==
    /\ execOp' # Idle /\ execOp'.stage = "execute"
    /\ execOp' # execOp

\* the step is a click on the Execute button of a message: no call in flight
\* is answered in it, and the message of the button is the one executing
ExecuteClicked ==
    /\ execOp = Idle
    /\ submitOp' = submitOp /\ approvals' = approvals
    /\ executingMessageId = NoMessage
    /\ executingMessageId' = execOp'.sql

\* C21: SQL is executed on the Executor only by a click on Execute: no answer
\* of the Planner (a Ready result, a continuation, a corrected SQL) starts an
\* execution, and while the correction is in flight or refreshed nothing runs.
C21_ExecutionOnlyOnTrigger ==
    [][ExecutionStarts => ExecuteClicked]_vars

C21_Witness ==
    /\ execOp # Idle /\ execOp.stage = "refresh"
    /\ execOp.feedback.sql = executingMessageId
    /\ error \in ExecutorErrors

\* C22: merging the payload that was merged just before leaves the snapshot
\* (tables, schemas, relationships) as it is and refreshes the timestamp.
C22_MergeIdempotent ==
    [][lastMerge'.times > 1 =>
         /\ Snapshot(cache') = Snapshot(cache)
         /\ cache'.mergedAt = clock' /\ cache'.mergedAt > cache.mergedAt]_vars

C22_Witness ==
    /\ lastMerge.times = 2
    /\ lastMerge.payload = SchemaPayload(<<[table_name |-> "users", columns |-> <<"id", "email">>]>>)
    /\ cache.tables # {}
    /\ cache.schemas = lastMerge.payload.data

Compatible(p, q) ==
    p.metadata_type = "schema" /\ q.metadata_type = "schema" =>
        \A t \in DOMAIN p.data \cap DOMAIN q.data : p.data[t] = q.data[t]

AutoApprovedCalls(calls) ==
    Cardinality({k \in DOMAIN calls : calls[k].fn = "onApproved" /\ calls[k].auto})

\* C24: in a step that changes the active conversation the counter becomes
\* 0; in any other step it grows by one for each call of onApproved with
\* wasAutoApproved and by nothing else: rejections, failed approvals, manual
\* approvals and changes of auto-mode or of the bound leave it as it is.
C24_CounterFrame ==
    [][autoApprovalCount' =
         IF conversationId' # conversationId THEN 0
         ELSE autoApprovalCount + AutoApprovedCalls(resolved')]_vars

\* a manual approval has ended after the counter reached the bound
C24_Witness ==
    /\ autoApprovalCount = 1 /\ maxAutoApprovals = 1 /\ autoMode
    /\ Len(resolved) = 1
    /\ resolved[1].fn = "onApproved" /\ ~resolved[1].auto
    /\ AwaitingDecision

\* the approval round-trip in flight is the only one, it was issued by the
\* open dialog for the pending request, and the dialog is loading
OneRoundTrip ==
    /\ Len(approvals) <= 1
    /\ \A i \in DOMAIN approvals :
          /\ approvals[i].live /\ maLoading
          /\ approvals[i].req = pendingMetadataRequest.metadata_request
          /\ approvals[i].conv = conversationId

\* every call of onApproved or onRejected resolves a request that is pending
\* at the call, and the calls of one step resolve different requests
ResolvesPending ==
    /\ \A k \in DOMAIN resolved : resolved[k].req # NoMetadataRequest
    /\ \A k \in DOMAIN resolved, l \in DOMAIN resolved :
          k # l => resolved[k].req # resolved[l].req

\* while a round-trip is in flight the request is resolved only by the end
\* of that round-trip, with one call
ResolvedByRoundTrip ==
    \A i \in DOMAIN approvals :
        LET ended == i \notin DOMAIN approvals' \/ ContinuationAnswered(i)
            first == {k \in DOMAIN resolved' : resolved'[k].req = approvals[i].req}
        IN  /\ ended => Cardinality(first) = 1 /\ 1 \in first
            /\ ~ended => resolved' = <<>>

\* the request of the open dialog leaves it only by a call that resolves it
ResolvedWhenClosed ==
    Mounted(Cur) /\ pendingMetadataRequest' # pendingMetadataRequest =>
        /\ resolved' # <<>>
        /\ resolved'[1].req = pendingMetadataRequest.metadata_request

\* C25: the request of the dialog is resolved by one call, of onApproved or
\* of onRejected, and never again; at most one approval round-trip is in
\* flight for it, and while it is in flight nothing else resolves the request.
C25_ResolvedOnce ==
    /\ [](OneRoundTrip /\ ResolvesPending)
    /\ [][ResolvedByRoundTrip /\ ResolvedWhenClosed]_vars

\* the counter has changed and the next auto-approved round-trip is in flight
C25_Witness ==
    /\ resolved = <<>>
    /\ \E i \in DOMAIN approvals : approvals[i].stage = "continue" /\ approvals[i].isAuto
    /\ autoApprovalCount = 1

\* C26: the message list is overwritten only with the messages of the active
\* conversation: the answer of a getConversation that was requested for
\* another conversation does not replace it.
C26_MessagesOfActiveConversation ==
    [][messagesOf' # messagesOf /\ messagesOf' # NoConv => messagesOf' = conversationId']_vars

\* the user message that led to message m of the list: the last one before it
ProducingMessage(list, m) ==
    LET at == CHOOSE k \in DOMAIN list : list[k].sql = m
        before == {k \in 1..at : list[k].role = "user"}
    IN  list[CHOOSE k \in before : \A l \in before : l <= k].content

\* C27: the original_query of an error-correction call is the user message
\* that led to the SQL that failed, the latest user message before it.
C27_OriginalIntentIsLatest ==
    execOp # Idle /\ execOp.stage = "feedback" =>
        execOp.original_query = ProducingMessage(execOp.messages, execOp.sql)

\* the requests to the reasoning server that carry a conversation: its next
\* user message, a continuation, an error feedback
Sent == {b \in RequestsInFlight' \ RequestsInFlight : b.conv # NoConv}

\* C28: a deleted conversation is not the active conversation, and no user
\* message, continuation or error feedback is sent to a deleted conversation.
C28_DeletedConversationAbandoned ==
    /\ [](conversationId \notin deleted)
    /\ [][\A b \in Sent : b.conv \notin deleted]_vars

\* getToken() returns null, whether or not its invoke throws
NoToken == \A thrown \in BOOLEAN : GetToken(secureStorage, localStorage, thrown) = NoValue

\* no storage holds a token
NoTokenStored == secureStorage.TOKEN_KEY = NoValue /\ localStorage.TOKEN_KEY = NoValue

\* C29: authenticatedFetch issues no request when no token is stored (it
\* fails with Not authenticated), and once it has failed on a response with
\* status 401 the stored token and user are cleared, so that getToken()
\* returns null and the next authenticatedFetch issues no request.
C29_NoRequestWithoutToken ==
    /\ [][NoTokenStored => (fetching' => fetching)]_vars
    /\ [](outcome = "Session expired. Please login again." =>
            NoToken /\ secureStorage = Empty /\ localStorage = Empty)

\* C30: after logout() has completed getToken() returns null and
\* isAuthenticated() is false, wherever saveAuthData put the token, whichever
\* storage calls throw and whether or not the server answered the logout.
C30_LoggedOut == outcome = "logged out" => NoToken

=============================================================================
